---- MODULE Spec2Model ----
(***************************************************************************)
(* Room / participant admission state machine of src/server.js: the room   *)
(* registry `rooms`, the socket.io connections with their broadcast        *)
(* groups, the handlers of the real-time events and the deferred timers.   *)
(*                                                                         *)
(* A JavaScript object used as a map (room.participants, room.waitingRoom) *)
(* is a sequence of entries in key insertion order, each entry carrying    *)
(* its key in the field `key`.  Timestamps (joinedAt, requestedAt,         *)
(* timestamp, createdAt) and the constant `settings` record are left out:  *)
(* no handler reads them.  The ping handler is left out as well: it        *)
(* answers through the acknowledgement callback, writes nothing and emits  *)
(* no event.  A text is the sequence of its UTF-16 code units.             *)
(*                                                                         *)
(* rooms, room.participants and room.waitingRoom are object literals, so a *)
(* lookup by a name that is no own key goes on to Object.prototype: the    *)
(* model keeps what the handlers write there (objectHostId) and the        *)
(* prototype that approve-participant can give room.participants           *)
(* (participantsProto).  A handler that throws a TypeError stops at the    *)
(* throw: what it had assigned stays, and it emits nothing more.           *)
(***************************************************************************)
EXTENDS Integers, Sequences, FiniteSets, TLC

\* ------------------------------------------------------------------ bounds

\* Socket events and timer firings handled in one behaviour.
MaxEvents == 4

\* Accepted chat messages in one behaviour of Spec.
MaxMsgs == 1

\* ---------------------------------------------------------- input universes

\* socket.id of the connections, in the order they are opened (the ids are
\* random strings, so the first socket to connect can be called c1).
ConnSeq == <<"c1", "c2", "c3">>

Conns == {ConnSeq[i] : i \in 1..Len(ConnSeq)}

\* Room identifiers in the order POST /api/room hands them out (uuidv4 never
\* repeats, so a deleted identifier is never created again).
RoomSeq == <<"r1">>

RoomIds == {RoomSeq[i] : i \in 1..Len(RoomSeq)}

\* The keys the registry can have, in the order they are inserted: the rooms
\* above and a room that SpecRooms starts with.
RegistrySeq == RoomSeq \o <<"r2">>

RegistryIds == {RegistrySeq[i] : i \in 1..Len(RegistrySeq)}

\* The value undefined, where the model has to name it: the socket of an
\* event that has none, and a hostId that was never assigned.  No socket id
\* is this string.  A record simply lacks a property that is undefined.
Undefined == "undefined"

\* Object.getOwnPropertyNames(Object.prototype): the properties every object
\* literal inherits.  "__proto__" is the accessor of the object's prototype,
\* the others are functions.
ObjectPrototypeKeys ==
  {"constructor", "__defineGetter__", "__defineSetter__", "hasOwnProperty",
   "__lookupGetter__", "__lookupSetter__", "isPrototypeOf",
   "propertyIsEnumerable", "toString", "valueOf", "__proto__",
   "toLocaleString"}

\* participantId payloads of approve / deny / remove: the socket ids and the
\* name of an inherited function (SpecKeys draws more names).
TargetIds == Conns \cup {"constructor"}

\* username payloads of join-room ("" is the missing name).
Usernames == {"", "al", "Al", "bo"}

\* peerId payloads of join-room issued by connection c ("" is missing).
PeerIds(c) == {"", "peer-" \o c}

\* String.prototype.toLowerCase on the names above.
ToLowerCase(s) == IF s = "Al" THEN "al" ELSE s

\* --------------------------------------------------------------- the state

VARIABLES
  rooms,        \* const rooms = {}: room id -> room record (server.js:20)
  objectHostId, \* name k of ObjectPrototypeKeys -> the hostId that join-room
                \* has set on the object rooms[k] (Undefined: none)
  nextRoom,     \* how many identifiers uuidv4 has handed to POST /api/room
  conn,         \* socket.id -> "new" | "connected" | "closed"
  joined,       \* socket.id -> the room ids the socket has join()ed
  closeTimers,  \* socket.id -> pending setTimeout(disconnect(true), 1000)
                \* callbacks, one for every call of setTimeout
  evictTimers,  \* room id -> pending setTimeout(..., 60000) callbacks
  staleTimers,  \* room id -> how many of them were scheduled before the
                \* room last had a participant or a waiting entry
  waitingSeen,  \* socket.id -> the waitingParticipants of the last
                \* waiting-room-update the socket was sent
  msgCount,     \* chat messages accepted so far (their uuidv4 id)
  events,       \* socket events and timer firings handled so far
  last,         \* the event handled last: its name and its socket
  sent          \* what the last handler emitted, in emission order

vars == <<rooms, objectHostId, nextRoom, conn, joined, closeTimers,
          evictTimers, staleTimers, waitingSeen, msgCount, events, last, sent>>

\* ------------------------------------------------------ JavaScript objects

\* Object.keys(obj), as a set.
Keys(obj) == {obj[i].key : i \in 1..Len(obj)}

\* obj.hasOwnProperty(k)
HasOwn(obj, k) == k \in Keys(obj)

\* `name in rec` for a record: the property is there.
Has(rec, name) == name \in DOMAIN rec

\* Object.prototype.hostId has been set (join-room with roomId "__proto__",
\* line 98): from then on every object inherits a hostId.
Polluted == objectHostId["__proto__"] # Undefined

\* The names under which an object literal inherits a truthy value.
InheritedKeys ==
  ObjectPrototypeKeys \cup (IF Polluted THEN {"hostId"} ELSE {})

\* Mutant of Truthy: the handler goes on without the not-found check.
TruthyUnchecked(obj, k) == TRUE

\* Truthiness of obj[k] for an object whose prototype is Object.prototype:
\* an own entry, or an inherited property (obj["constructor"] is the
\* function Object).
Truthy(obj, k) == HasOwn(obj, k) \/ k \in InheritedKeys

\* obj[k] for an own key k.
Get(obj, k) == obj[CHOOSE i \in 1..Len(obj) : obj[i].key = k]

\* obj[k] = v: an existing key keeps its place, a new key goes last.
Put(obj, k, v) ==
  IF HasOwn(obj, k)
    THEN [i \in 1..Len(obj) |-> IF obj[i].key = k THEN v ELSE obj[i]]
    ELSE Append(obj, v)

\* Mutant of Delete: the object is emptied.
DeleteAll(obj, k) == <<>>

\* delete obj[k]; nothing happens for a name that is no own key.
Delete(obj, k) == SelectSeq(obj, LAMBDA e : e.key # k)

\* The hostId read from the object rooms[k] of an inherited name k: its own
\* one, or the one of Object.prototype (rooms["hostId"] is that string
\* itself, which inherits it as well).
InheritedHostId(k) ==
  IF k \in ObjectPrototypeKeys /\ objectHostId[k] # Undefined
    THEN objectHostId[k]
    ELSE objectHostId["__proto__"]

\* { ..."c1" } is { 0: "c", 1: "1" }: the characters of a socket id.
IdCharacters(id) ==
  ("0" :> "c") @@ ("1" :> (IF id = "c1" THEN "1"
                           ELSE IF id = "c2" THEN "2" ELSE "3"))

\* hostId: null
Null == "null"

\* The room record POST /api/room stores.  participantsProto is what stands
\* between room.participants and Object.prototype in its prototype chain:
\* nothing, or the one record an approve-participant has put there.
NewRoom ==
  [participants |-> <<>>, participantsProto |-> <<>>, waitingRoom |-> <<>>,
   chatMessages |-> <<>>, hostId |-> Null]

\* rooms[roomId] is truthy: a room, or an inherited property of rooms.
RoomFound(roomId) == roomId \in DOMAIN rooms \/ roomId \in InheritedKeys

\* rooms[roomId] when it is truthy: the room record, or the inherited object,
\* which has a hostId at most (its participants, waitingRoom and
\* chatMessages are undefined).
RoomObject(roomId) ==
  IF roomId \in DOMAIN rooms THEN rooms[roomId]
  ELSE [hostId |-> InheritedHostId(roomId)]

\* The existing rooms in the order `for (const roomId in rooms)` visits them.
RoomOrder == SelectSeq(RegistrySeq, LAMBDA r : r \in DOMAIN rooms)

\* io.sockets.sockets: the connected sockets.
Connected(cn) == {c \in Conns : cn[c] = "connected"}

\* The sockets io.to(name) reaches: the connected sockets in the group `name`.
\* Every socket is in the group named by its own id.
SocketsIn(name, cn, jn) ==
  {c \in Connected(cn) : c = name \/ name \in jn[c]}

\* One emit: the sockets it is delivered to, the event name and the payload.
Emit(to, ev, data) == [to |-> to, ev |-> ev, data |-> data]

\* The event kept in `last` (c is Undefined for an HTTP request and a timer
\* of a room).
Event(op, c) == [op |-> op, c |-> c]

\* socket.emit("error", { message }) and socket.emit("room-error", { message })
Error(c, message) == Emit({c}, "error", [message |-> message])

RoomError(c, message) == Emit({c}, "room-error", [message |-> message])

\* Mutant of IsHost: the handler goes on without the host check.
IsHostUnchecked(room, c) == TRUE

\* room.hostId !== socket.id fails: the socket is the room's host.
IsHost(room, c) == room.hostId = c

Init ==
  /\ rooms = <<>>
  /\ objectHostId = [k \in ObjectPrototypeKeys |-> Undefined]
  /\ nextRoom = 0
  /\ conn = [c \in Conns |-> "new"]
  /\ joined = [c \in Conns |-> {}]
  /\ closeTimers = [c \in Conns |-> 0]
  /\ evictTimers = [r \in RegistryIds |-> 0]
  /\ staleTimers = [r \in RegistryIds |-> 0]
  /\ waitingSeen = [c \in Conns |-> <<>>]
  /\ msgCount = 0
  /\ events = 0
  /\ last = Event("listen", Undefined)
  /\ sent = <<>>

\* Bookkeeping every socket event and timer firing shares.
Handled(op, c) ==
  /\ events' = events + 1
  /\ last' = Event(op, c)

\* ------------------------------------------------------ HTTP and connection

\* app.post("/api/room")
CreateRoom ==
  /\ nextRoom < Len(RoomSeq)
  /\ nextRoom' = nextRoom + 1
  /\ last' = Event("create-room", Undefined)
  /\ rooms' = [r \in DOMAIN rooms \cup {RoomSeq[nextRoom + 1]} |->
                 IF r \in DOMAIN rooms THEN rooms[r] ELSE NewRoom]
  /\ sent' = <<>>
  /\ UNCHANGED <<objectHostId, conn, joined, closeTimers, evictTimers,
                 staleTimers, waitingSeen, msgCount, events>>

\* io.on("connection"): a new socket; no room state is touched.
Connect(c) ==
  /\ conn[c] = "new"
  /\ \A i, j \in 1..Len(ConnSeq) :
       i < j /\ ConnSeq[j] = c => conn[ConnSeq[i]] # "new"
  /\ conn' = [conn EXCEPT ![c] = "connected"]
  /\ last' = Event("connection", c)
  /\ sent' = <<>>
  /\ UNCHANGED <<rooms, objectHostId, nextRoom, joined, closeTimers,
                 evictTimers, staleTimers, waitingSeen, msgCount, events>>

\* ------------------------------------------------------------- join-room

\* The participant record of a host bootstrap.
HostRecord(c, username, peerId) ==
  [key |-> c, id |-> c, username |-> username, peerId |-> peerId,
   audioEnabled |-> TRUE, videoEnabled |-> TRUE, isHost |-> TRUE]

\* The waiting-room record of a join request.
WaitingRecord(c, username, peerId) ==
  [key |-> c, id |-> c, username |-> username, peerId |-> peerId]

\* p.username === username for a username that is a string: false for an
\* entry that has no username.
HasUsername(p, username) == Has(p, "username") /\ p.username = username

\* existingInWaiting || existingInRoom: some entry has exactly this username.
NameTaken(room, username) ==
  \/ \E i \in 1..Len(room.waitingRoom) :
       HasUsername(room.waitingRoom[i], username)
  \/ \E i \in 1..Len(room.participants) :
       HasUsername(room.participants[i], username)

\* socket.on("join-room")
JoinRoom(c, roomId, username, peerId) ==
  /\ conn[c] = "connected"
  /\ Handled("join-room", c)
  /\ UNCHANGED <<nextRoom, conn, closeTimers, evictTimers, msgCount>>
  /\ IF ~RoomFound(roomId)
       THEN /\ sent' = <<RoomError(c, "Room does not exist")>>
            /\ UNCHANGED <<rooms, objectHostId, joined>>
     ELSE IF username = "" \/ peerId = ""
       THEN /\ sent' = <<RoomError(c,
                     "Username and peer ID are required")>>
            /\ UNCHANGED <<rooms, objectHostId, joined>>
     ELSE IF roomId \notin DOMAIN rooms
       THEN \* An inherited object.  Without a hostId it is given one (line
            \* 98) and the socket joins the group (line 101), then
            \* room.participants[...] throws (line 102); with a hostId,
            \* Object.values(room.waitingRoom) throws (line 127).
            /\ sent' = <<>>
            /\ rooms' = rooms
            /\ IF InheritedHostId(roomId) = Undefined
                 THEN /\ objectHostId' = [objectHostId EXCEPT ![roomId] = c]
                      /\ joined' = [joined EXCEPT ![c] = @ \cup {roomId}]
                 ELSE UNCHANGED <<objectHostId, joined>>
     ELSE IF rooms[roomId].hostId = Null
       THEN LET room == rooms[roomId]
                parts == Put(room.participants, c, HostRecord(c, username, peerId))
            IN /\ rooms' = [rooms EXCEPT ![roomId] =
                              [room EXCEPT !.hostId = c, !.participants = parts]]
               /\ joined' = [joined EXCEPT ![c] = @ \cup {roomId}]
               /\ UNCHANGED objectHostId
               /\ sent' = <<Emit({c}, "admission-status",
                                 [status |-> "approved", isHost |-> TRUE,
                                  chatMessages |-> room.chatMessages,
                                  participants |-> parts]),
                            Emit({c}, "room-participants",
                                 [participants |-> <<>>])>>
     ELSE IF NameTaken(rooms[roomId], username)
       THEN /\ sent' = <<RoomError(c,
                     "A user with this name is already in the meeting")>>
            /\ UNCHANGED <<rooms, objectHostId, joined>>
     ELSE LET room == rooms[roomId]
              waiting == Put(room.waitingRoom, c, WaitingRecord(c, username, peerId))
          IN /\ rooms' = [rooms EXCEPT ![roomId] =
                            [room EXCEPT !.waitingRoom = waiting]]
             /\ sent' = <<Emit({c}, "admission-status",
                               [status |-> "waiting"]),
                          Emit(SocketsIn(room.hostId, conn, joined),
                               "participant-waiting",
                               [participantId |-> c, username |-> username,
                                peerId |-> peerId]),
                          Emit(SocketsIn(room.hostId, conn, joined),
                               "waiting-room-update",
                               [waitingParticipants |-> waiting])>>
             /\ UNCHANGED <<objectHostId, joined>>

\* ---------------------------------------------- approve / deny (host only)

\* setTimeout(callback, delay) for socket or room k: one more pending callback.
Schedule(timers, k) == [timers EXCEPT ![k] = @ + 1]

\* room.waitingRoom[participantId] / room.participants[participantId] when
\* it is truthy, as the own enumerable properties it has: the own entry; for
\* an inherited name the function or Object.prototype, which has a hostId
\* at most; for "hostId" the inherited socket id, a string; nothing for any
\* other value.  Only an own entry has an id, a username and a peerId.
Lookup(obj, k) ==
  IF HasOwn(obj, k) THEN Get(obj, k)
  ELSE IF k \in ObjectPrototypeKeys /\ objectHostId[k] # Undefined
    THEN [key |-> k, hostId |-> objectHostId[k]]
  ELSE IF k = "hostId" /\ Polluted
    THEN [key |-> k] @@ IdCharacters(objectHostId["__proto__"])
  ELSE [key |-> k]

\* { ...waitingParticipant, joinedAt, audioEnabled: true, videoEnabled: true,
\*   isHost: false }
ApprovedRecord(k, w) ==
  [f \in DOMAIN w \cup {"key", "audioEnabled", "videoEnabled", "isHost"} |->
     IF f = "key" THEN k
     ELSE IF f = "isHost" THEN FALSE
     ELSE IF f \in {"audioEnabled", "videoEnabled"} THEN TRUE
     ELSE w[f]]

\* room.participants[k] = v: "__proto__" is no key, the assignment makes v
\* the prototype of room.participants.
SetParticipant(room, k, v) ==
  IF k = "__proto__"
    THEN [room EXCEPT !.participantsProto = <<v>>]
    ELSE [room EXCEPT !.participants = Put(@, k, v)]

\* The names room.participants inherits a truthy value for from a record
\* that is its prototype: joinedAt (a Date), audioEnabled and videoEnabled,
\* and what the spread has copied (isHost is false).
InheritedFromRecord(room) ==
  IF room.participantsProto = <<>> THEN {}
  ELSE {"joinedAt", "audioEnabled", "videoEnabled"}
       \cup (DOMAIN room.participantsProto[1]
               \ {"key", "audioEnabled", "videoEnabled", "isHost"})
       \cup (IF Has(room.participantsProto[1], "id")
               THEN {"socketId", "requestedAt"} ELSE {})

\* Truthiness of room.participants[k].
TruthyParticipant(room, k) ==
  Truthy(room.participants, k) \/ k \in InheritedFromRecord(room)

\* The snapshot sent to a newly approved socket: every entry but its own.
ExistingParticipants(parts, participantId) ==
  SelectSeq(parts, LAMBDA e : e.key # participantId)

\* socket.to(roomId) of the approve handler: who is sent user-joined.
UserJoinedGroup(c, roomId, cn, jn) == SocketsIn(roomId, cn, jn) \ {c}

\* The payload of user-joined; username and peerId are those of the waiting
\* entry, and are not there when it has none.
UserJoined(participantId, w) ==
  IF Has(w, "username")
    THEN [participantId |-> participantId, username |-> w.username,
          peerId |-> w.peerId]
    ELSE [participantId |-> participantId]

\* The payload of participant-approved (its message repeats the username).
ParticipantApproved(w) ==
  IF Has(w, "username") THEN [username |-> w.username] ELSE <<>>

\* socket.on("approve-participant")
Approve(c, roomId, participantId) ==
  /\ conn[c] = "connected"
  /\ Handled("approve-participant", c)
  /\ UNCHANGED <<objectHostId, nextRoom, conn, closeTimers, evictTimers,
                 msgCount>>
  /\ IF ~RoomFound(roomId)
       THEN /\ sent' = <<Error(c, "Room not found")>>
            /\ UNCHANGED <<rooms, joined>>
     ELSE IF ~IsHost(RoomObject(roomId), c)
       THEN /\ sent' = <<Error(c,
                     "Unauthorized: Only host can approve participants")>>
            /\ UNCHANGED <<rooms, joined>>
     ELSE IF roomId \notin DOMAIN rooms
       THEN \* room.waitingRoom is undefined: line 191 throws.
            /\ sent' = <<>>
            /\ UNCHANGED <<rooms, joined>>
     ELSE IF ~Truthy(rooms[roomId].waitingRoom, participantId)
       THEN /\ sent' = <<Error(c,
                     "Participant not found in waiting room")>>
            /\ UNCHANGED <<rooms, joined>>
     ELSE LET room == rooms[roomId]
              w == Lookup(room.waitingRoom, participantId)
              promoted == SetParticipant(room, participantId,
                                         ApprovedRecord(participantId, w))
              parts == promoted.participants
              waiting == Delete(room.waitingRoom, participantId)
              online == participantId \in Connected(conn)
              jn == IF online
                      THEN [joined EXCEPT ![participantId] = @ \cup {roomId}]
                      ELSE joined
          IN /\ rooms' = [rooms EXCEPT ![roomId] =
                  [promoted EXCEPT !.waitingRoom = waiting]]
             /\ joined' = jn
             /\ sent' =
                  (IF online
                     THEN <<Emit({participantId}, "admission-status",
                                 [status |-> "approved", isHost |-> FALSE,
                                  chatMessages |-> room.chatMessages]),
                            Emit({participantId}, "room-participants",
                                 [participants |->
                                    ExistingParticipants(parts, participantId)]),
                            Emit(UserJoinedGroup(c, roomId, conn, jn),
                                 "user-joined",
                                 UserJoined(participantId, w)),
                            Emit(SocketsIn(roomId, conn, jn),
                                 "participant-approved",
                                 ParticipantApproved(w))>>
                     ELSE <<>>)
                  \o <<Emit({c}, "waiting-room-update",
                            [waitingParticipants |-> waiting])>>

\* socket.on("deny-participant")
Deny(c, roomId, participantId) ==
  /\ conn[c] = "connected"
  /\ Handled("deny-participant", c)
  /\ UNCHANGED <<objectHostId, nextRoom, conn, joined, evictTimers, msgCount>>
  /\ IF ~RoomFound(roomId)
       THEN /\ sent' = <<Error(c, "Room not found")>>
            /\ UNCHANGED <<rooms, closeTimers>>
     ELSE IF ~IsHost(RoomObject(roomId), c)
       THEN /\ sent' = <<Error(c,
                     "Unauthorized: Only host can deny participants")>>
            /\ UNCHANGED <<rooms, closeTimers>>
     ELSE IF roomId \notin DOMAIN rooms
       THEN \* room.waitingRoom is undefined: line 272 throws.
            /\ sent' = <<>>
            /\ UNCHANGED <<rooms, closeTimers>>
     ELSE IF ~Truthy(rooms[roomId].waitingRoom, participantId)
       THEN /\ sent' = <<Error(c,
                     "Participant not found in waiting room")>>
            /\ UNCHANGED <<rooms, closeTimers>>
     ELSE LET room == rooms[roomId]
              waiting == Delete(room.waitingRoom, participantId)
              online == participantId \in Connected(conn)
          IN /\ rooms' = [rooms EXCEPT ![roomId] =
                            [room EXCEPT !.waitingRoom = waiting]]
             /\ closeTimers' = IF online THEN Schedule(closeTimers, participantId)
                               ELSE closeTimers
             /\ sent' =
                  (IF online
                     THEN <<Emit({participantId}, "admission-status",
                                 [status |-> "denied"])>>
                     ELSE <<>>)
                  \o <<Emit({c}, "waiting-room-update",
                            [waitingParticipants |-> waiting])>>

\* ------------------------------------------------------ remove-participant

\* The payload of you-were-removed.
RemovedNotice ==
  [message |-> "You have been removed from the meeting by the host"]

\* The payload of user-removed; its username is that of the removed entry,
\* and is not there when the entry has none.
UserRemoved(participantId, peerId, removed) ==
  IF Has(removed, "username")
    THEN [participantId |-> participantId, peerId |-> peerId,
          username |-> removed.username]
    ELSE [participantId |-> participantId, peerId |-> peerId]

\* The payload of participant-removed (its message repeats the username).
ParticipantRemoved(removed) ==
  IF Has(removed, "username") THEN [username |-> removed.username]
  ELSE <<>>

\* socket.on("remove-participant"); peerId is the payload's, relayed as is.
Remove(c, roomId, participantId, peerId) ==
  /\ conn[c] = "connected"
  /\ Handled("remove-participant", c)
  /\ UNCHANGED <<objectHostId, nextRoom, conn, joined, evictTimers, msgCount>>
  /\ IF ~RoomFound(roomId)
       THEN /\ sent' = <<Error(c, "Room not found")>>
            /\ UNCHANGED <<rooms, closeTimers>>
     ELSE IF ~IsHost(RoomObject(roomId), c)
       THEN /\ sent' = <<Error(c,
                     "Unauthorized: Only host can remove participants")>>
            /\ UNCHANGED <<rooms, closeTimers>>
     ELSE IF roomId \notin DOMAIN rooms
       THEN \* room.participants is undefined: line 407 throws.
            /\ sent' = <<>>
            /\ UNCHANGED <<rooms, closeTimers>>
     ELSE IF ~TruthyParticipant(rooms[roomId], participantId)
       THEN /\ sent' = <<>>
            /\ UNCHANGED <<rooms, closeTimers>>
     ELSE LET room == rooms[roomId]
              removed == Lookup(room.participants, participantId)
              online == participantId \in Connected(conn)
          IN /\ rooms' = [rooms EXCEPT ![roomId] =
                  [room EXCEPT !.participants = Delete(@, participantId)]]
             /\ closeTimers' = IF online THEN Schedule(closeTimers, participantId)
                               ELSE closeTimers
             /\ sent' = <<Emit(SocketsIn(participantId, conn, joined),
                               "you-were-removed", RemovedNotice),
                          Emit(SocketsIn(roomId, conn, joined) \ {c},
                               "user-removed",
                               UserRemoved(participantId, peerId, removed)),
                          Emit(SocketsIn(roomId, conn, joined),
                               "participant-removed",
                               ParticipantRemoved(removed))>>

\* socket.on("get-waiting-room")
GetWaitingRoom(c, roomId) ==
  /\ conn[c] = "connected"
  /\ Handled("get-waiting-room", c)
  /\ UNCHANGED <<rooms, objectHostId, nextRoom, conn, joined, closeTimers,
                 evictTimers, msgCount>>
  /\ sent' =
       IF ~RoomFound(roomId)
         THEN <<Error(c, "Room not found")>>
       ELSE IF ~IsHost(RoomObject(roomId), c)
         THEN <<Error(c, "Unauthorized: Only host can view waiting room")>>
       ELSE IF roomId \notin DOMAIN rooms
         THEN <<>>  \* Object.values(undefined) throws (line 456).
       ELSE <<Emit({c}, "waiting-room-update",
                   [waitingParticipants |-> rooms[roomId].waitingRoom])>>

\* ------------------------------------------------------------------ chat

\* Keep only last 100 messages (server.js:341).
MaxChatMessages == 100

\* Validate message length (server.js:323).
MaxMessageLength == 500

\* A message text is the sequence of its UTF-16 code units, which is what
\* String.prototype.length counts.  The code units named below:
Tab == 9

LineFeed == 10

Space == 32

LetterH == 104

LetterI == 105

LetterX == 120

\* What String.prototype.trim strips (ECMAScript WhiteSpace and
\* LineTerminator): tab, LF, VT, FF, CR, space, U+00A0, U+1680,
\* U+2000..U+200A, U+2028, U+2029, U+202F, U+205F, U+3000 and U+FEFF.
WhiteSpace ==
  {Tab, LineFeed, 11, 12, 13, Space, 160, 5760} \cup (8192..8202)
    \cup {8232, 8233, 8239, 8287, 12288, 65279}

\* String.prototype.trimStart
RECURSIVE TrimStart(_)
TrimStart(m) ==
  IF m # <<>> /\ Head(m) \in WhiteSpace THEN TrimStart(Tail(m)) ELSE m

\* String.prototype.trimEnd
RECURSIVE TrimEnd(_)
TrimEnd(m) ==
  IF m # <<>> /\ m[Len(m)] \in WhiteSpace
    THEN TrimEnd(SubSeq(m, 1, Len(m) - 1))
    ELSE m

\* String.prototype.trim
Trim(m) == TrimEnd(TrimStart(m))

\* message payloads of send-message: "", " ", "\t", "hi", " hi " and
\* "\n hi\t".
Messages ==
  {<<>>, <<Space>>, <<Tab>>, <<LetterH, LetterI>>,
   <<Space, LetterH, LetterI, Space>>,
   <<LineFeed, Space, LetterH, LetterI, Tab>>}

\* username payloads of send-message.
AuthorNames == {"bo"}

\* Mutant of PushMessage: slice(0, 100) keeps the oldest 100 messages.
PushMessageKeepOldest(log, chatMessage) ==
  LET pushed == Append(log, chatMessage)
  IN IF Len(pushed) > MaxChatMessages
       THEN SubSeq(pushed, 1, MaxChatMessages)
       ELSE pushed

\* room.chatMessages.push(chatMessage); if longer than 100, slice(-100).
PushMessage(log, chatMessage) ==
  LET pushed == Append(log, chatMessage)
  IN IF Len(pushed) > MaxChatMessages
       THEN SubSeq(pushed, Len(pushed) - MaxChatMessages + 1, Len(pushed))
       ELSE pushed

\* Mutant of NewMessageGroup: socket.to(roomId) leaves the sender out.
NewMessageGroupOfOthers(c, roomId, cn, jn) == SocketsIn(roomId, cn, jn) \ {c}

\* io.to(roomId) of the send-message handler: who is sent new-message.
NewMessageGroup(c, roomId, cn, jn) == SocketsIn(roomId, cn, jn)

\* socket.on("send-message"); the message id stands for uuidv4().  A socket
\* id is none of the names an object inherits, so room.participants[socket.id]
\* is truthy for an own entry only (here and in the disconnect handler).
SendMessage(c, roomId, message, username) ==
  /\ conn[c] = "connected"
  /\ Handled("send-message", c)
  /\ UNCHANGED <<objectHostId, nextRoom, conn, joined, closeTimers,
                 evictTimers>>
  /\ IF ~RoomFound(roomId)
       THEN /\ sent' = <<Error(c, "Room not found")>>
            /\ UNCHANGED <<rooms, msgCount>>
     ELSE IF roomId \notin DOMAIN rooms
       THEN \* room.participants is undefined: line 312 throws.
            /\ sent' = <<>>
            /\ UNCHANGED <<rooms, msgCount>>
     ELSE IF ~HasOwn(rooms[roomId].participants, c)
       THEN /\ sent' = <<Error(c, "You are not in this room")>>
            /\ UNCHANGED <<rooms, msgCount>>
     ELSE IF message = <<>> \/ Len(Trim(message)) = 0
       THEN /\ sent' = <<Error(c, "Message cannot be empty")>>
            /\ UNCHANGED <<rooms, msgCount>>
     ELSE IF Len(Trim(message)) > MaxMessageLength
       THEN /\ sent' = <<Error(c, "Message too long")>>
            /\ UNCHANGED <<rooms, msgCount>>
     ELSE LET room == rooms[roomId]
              chatMessage == [id |-> msgCount + 1, username |-> username,
                              message |-> Trim(message), senderId |-> c,
                              isHost |-> (room.hostId = c)]
          IN /\ rooms' = [rooms EXCEPT ![roomId] =
                  [room EXCEPT !.chatMessages = PushMessage(@, chatMessage)]]
             /\ msgCount' = msgCount + 1
             /\ sent' = <<Emit(NewMessageGroup(c, roomId, conn, joined),
                               "new-message", chatMessage)>>

\* ------------------------------------------- media flags, typing indicators

\* socket.to(roomId) of the toggle and typing handlers: the group of the
\* room without the sender.
OthersIn(c, roomId, cn, jn) == SocketsIn(roomId, cn, jn) \ {c}

\* room && room.participants[socket.id] (lines 361, 378, 463, 470).  For an
\* inherited object room.participants is undefined and the test throws, so
\* the handler does nothing then as well.
IsParticipant(c, roomId) ==
  /\ roomId \in DOMAIN rooms
  /\ HasOwn(rooms[roomId].participants, c)

\* room.participants[socket.id][flag] = enabled
SetFlag(room, c, flag, enabled) ==
  [room EXCEPT !.participants =
     Put(@, c, [Get(@, c) EXCEPT ![flag] = enabled])]

\* Lines 357-371 and 374-388: the two handlers differ in the flag they write
\* and the event they emit.
Toggle(c, roomId, peerId, enabled, op, flag, ev) ==
  /\ conn[c] = "connected"
  /\ Handled(op, c)
  /\ UNCHANGED <<objectHostId, nextRoom, conn, joined, closeTimers,
                 evictTimers, msgCount>>
  /\ IF IsParticipant(c, roomId)
       THEN /\ rooms' = [rooms EXCEPT ![roomId] = SetFlag(@, c, flag, enabled)]
            /\ sent' = <<Emit(OthersIn(c, roomId, conn, joined), ev,
                              [participantId |-> c, peerId |-> peerId,
                               enabled |-> enabled])>>
       ELSE /\ sent' = <<>>
            /\ UNCHANGED rooms

\* socket.on("toggle-audio")
ToggleAudio(c, roomId, peerId, enabled) ==
  Toggle(c, roomId, peerId, enabled,
         "toggle-audio", "audioEnabled", "user-toggle-audio")

\* socket.on("toggle-video")
ToggleVideo(c, roomId, peerId, enabled) ==
  Toggle(c, roomId, peerId, enabled,
         "toggle-video", "videoEnabled", "user-toggle-video")

\* socket.on("typing-start")
TypingStart(c, roomId, username) ==
  /\ conn[c] = "connected"
  /\ Handled("typing-start", c)
  /\ UNCHANGED <<rooms, objectHostId, nextRoom, conn, joined, closeTimers,
                 evictTimers, msgCount>>
  /\ sent' = IF IsParticipant(c, roomId)
               THEN <<Emit(OthersIn(c, roomId, conn, joined), "user-typing",
                           [username |-> username])>>
               ELSE <<>>

\* socket.on("typing-stop"); the event has no payload.
TypingStop(c, roomId) ==
  /\ conn[c] = "connected"
  /\ Handled("typing-stop", c)
  /\ UNCHANGED <<rooms, objectHostId, nextRoom, conn, joined, closeTimers,
                 evictTimers, msgCount>>
  /\ sent' = IF IsParticipant(c, roomId)
               THEN <<Emit(OthersIn(c, roomId, conn, joined),
                           "user-stopped-typing", <<>>)>>
               ELSE <<>>

\* -------------------------------------------------------------- disconnect

\* The index of the first remaining participant: remainingParticipants[0].
Successor(remaining) == remaining[1].key

\* Mutant of LeaveEmits: the left events are emitted first.
LeaveEmitsLeftFirst(transferred, left) == left \o transferred

\* The emits of lines 500-531 in their order: host-transferred and
\* host-changed (if the host is transferred), then user-left and
\* participant-left.
LeaveEmits(transferred, left) == transferred \o left

\* The payload of host-changed; the username is not there when the new
\* host's entry has none.
HostChanged(newHostId, newHost) ==
  IF Has(newHost, "username")
    THEN [newHostId |-> newHostId, newHostUsername |-> newHost.username]
    ELSE [newHostId |-> newHostId]

\* Lines 484-541 for one room: the socket was a participant.  cn and jn are
\* the connections and groups after socket.io has dropped the socket.
LeaveParticipants(room, roomId, c, cn, jn) ==
  IF ~HasOwn(room.participants, c)
    THEN [room |-> room, sent |-> <<>>]
  ELSE
    LET participant == Get(room.participants, c)
        remaining == SelectSeq(room.participants, LAMBDA e : e.key # c)
        transfer == room.hostId = c /\ Len(remaining) > 0
        newHostId == Successor(remaining)
        hosted ==
          IF room.hostId # c THEN room
          ELSE IF Len(remaining) > 0
            THEN [room EXCEPT
                    !.hostId = newHostId,
                    !.participants =
                       Put(@, newHostId,
                           [Get(@, newHostId) EXCEPT !.isHost = TRUE])]
          ELSE [room EXCEPT !.hostId = Null]
    IN [room |-> [hosted EXCEPT !.participants = Delete(@, c)],
        sent |->
          LeaveEmits(
            IF transfer
              THEN <<Emit(SocketsIn(newHostId, cn, jn), "host-transferred",
                          [isHost |-> TRUE]),
                     Emit(SocketsIn(roomId, cn, jn), "host-changed",
                          HostChanged(newHostId,
                                      Get(room.participants, newHostId)))>>
              ELSE <<>>,
            <<Emit(SocketsIn(roomId, cn, jn) \ {c}, "user-left",
                   [participantId |-> c, peerId |-> participant.peerId,
                    username |-> participant.username]),
              Emit(SocketsIn(roomId, cn, jn), "participant-left",
                   [username |-> participant.username])>>)]

\* Mutant of LeaveWaiting: the waiting entry is kept.
LeaveWaitingKept(room, c, cn, jn) == [room |-> room, sent |-> <<>>]

\* Lines 543-559 for one room: the socket was waiting.
LeaveWaiting(room, c, cn, jn) ==
  IF ~HasOwn(room.waitingRoom, c)
    THEN [room |-> room, sent |-> <<>>]
  ELSE
    LET waiting == Delete(room.waitingRoom, c)
    IN [room |-> [room EXCEPT !.waitingRoom = waiting],
        sent |->
          IF room.hostId # Null
            THEN <<Emit(SocketsIn(room.hostId, cn, jn), "waiting-room-update",
                        [waitingParticipants |-> waiting])>>
            ELSE <<>>]

\* Mutant of IsEmptyRoom: the emptiness check is left out.
IsEmptyRoomUnchecked(room) == TRUE

\* participants and waitingRoom both have no keys.
IsEmptyRoom(room) == Len(room.participants) = 0 /\ Len(room.waitingRoom) = 0

\* One pass of the loop body (lines 481-576) over one room.
DisconnectRoom(room, roomId, c, cn, jn) ==
  LET a == LeaveParticipants(room, roomId, c, cn, jn)
      b == LeaveWaiting(a.room, c, cn, jn)
  IN [room |-> b.room, sent |-> a.sent \o b.sent,
      evict |-> IF IsEmptyRoom(b.room) THEN 1 ELSE 0]

\* The emits of the loop over the rooms, in the order the rooms are visited.
RECURSIVE DisconnectSent(_, _, _, _)
DisconnectSent(order, c, cn, jn) ==
  IF order = <<>> THEN <<>>
  ELSE DisconnectRoom(rooms[Head(order)], Head(order), c, cn, jn).sent
       \o DisconnectSent(Tail(order), c, cn, jn)

\* The "disconnect" handler of socket c.  socket.io has by then removed the
\* socket from io.sockets.sockets and from every group it had joined.  The
\* for-in loop visits the rooms and then what rooms inherits and can be
\* enumerated: once Object.prototype has a hostId the loop ends by throwing
\* on rooms["hostId"], after every room has been handled.
OnDisconnect(c) ==
  LET cn == [conn EXCEPT ![c] = "closed"]
      jn == [joined EXCEPT ![c] = {}]
  IN /\ conn' = cn
     /\ joined' = jn
     /\ rooms' = [r \in DOMAIN rooms |->
                    DisconnectRoom(rooms[r], r, c, cn, jn).room]
     /\ evictTimers' = [r \in RegistryIds |->
          IF r \in DOMAIN rooms
            THEN evictTimers[r] + DisconnectRoom(rooms[r], r, c, cn, jn).evict
            ELSE evictTimers[r]]
     /\ sent' = DisconnectSent(RoomOrder, c, cn, jn)

\* The client, or the network, closes the connection.
Disconnect(c) ==
  /\ conn[c] = "connected"
  /\ Handled("disconnect", c)
  /\ OnDisconnect(c)
  /\ UNCHANGED <<objectHostId, nextRoom, closeTimers, msgCount>>

\* ------------------------------------------------------------------ timers

\* One callback of setTimeout(() => participantSocket.disconnect(true), 1000)
\* fires; the call does nothing on a socket that is already closed.
ForcedClose(c) ==
  /\ closeTimers[c] > 0
  /\ Handled("forced-close", c)
  /\ closeTimers' = [closeTimers EXCEPT ![c] = @ - 1]
  /\ UNCHANGED <<objectHostId, nextRoom, msgCount>>
  /\ IF conn[c] = "connected"
       THEN OnDisconnect(c)
       ELSE /\ sent' = <<>>
            /\ UNCHANGED <<rooms, conn, joined, evictTimers>>

\* The eviction callback scheduled at line 566 fires.
Evict(roomId) ==
  /\ evictTimers[roomId] > 0
  /\ Handled("evict", Undefined)
  /\ evictTimers' = [evictTimers EXCEPT ![roomId] = @ - 1]
  /\ rooms' = IF roomId \in DOMAIN rooms /\ IsEmptyRoom(rooms[roomId])
                THEN [r \in DOMAIN rooms \ {roomId} |-> rooms[r]]
                ELSE rooms
  /\ sent' = <<>>
  /\ UNCHANGED <<objectHostId, nextRoom, conn, joined, closeTimers, msgCount>>

\* Timers of equal delay fire in the order they were scheduled, so the
\* pending eviction timers of a room that were scheduled before the room
\* last had a participant or a waiting entry fire first.  After a handler
\* that leaves the room occupied every pending timer is such a timer.
TrackTimers ==
  staleTimers' = [r \in RegistryIds |->
    IF r \in DOMAIN rooms' /\ ~IsEmptyRoom(rooms'[r])
      THEN evictTimers'[r]
    ELSE IF evictTimers'[r] < evictTimers[r] /\ staleTimers[r] > 0
      THEN staleTimers[r] - 1
    ELSE staleTimers[r]]

\* The emits of this handler that carry a waiting list to socket c.
WaitingUpdates(c) ==
  SelectSeq(sent', LAMBDA e : e.ev = "waiting-room-update" /\ c \in e.to)

\* Every socket remembers the waiting list it was sent last.
TrackWaitingLists ==
  waitingSeen' = [c \in Conns |->
    IF WaitingUpdates(c) = <<>>
      THEN waitingSeen[c]
      ELSE WaitingUpdates(c)[Len(WaitingUpdates(c))].data.waitingParticipants]

\* What is recorded about every handler and timer callback.
Track == TrackTimers /\ TrackWaitingLists

\* Socket events and timer firings are handled while the budget lasts.
Budget == events < MaxEvents

\* The events with their payloads drawn from the input universes.
JoinRoomEvent ==
  \E c \in Conns, r \in RoomIds, u \in Usernames :
    \E p \in PeerIds(c) : Budget /\ JoinRoom(c, r, u, p) /\ Track

ApproveEvent ==
  \E c \in Conns, r \in RoomIds, t \in TargetIds :
    Budget /\ Approve(c, r, t) /\ Track

DenyEvent ==
  \E c \in Conns, r \in RoomIds, t \in TargetIds :
    Budget /\ Deny(c, r, t) /\ Track

RemoveEvent ==
  \E c \in Conns, r \in RoomIds, t \in TargetIds :
    Budget /\ Remove(c, r, t, "peer-" \o t) /\ Track

GetWaitingRoomEvent ==
  \E c \in Conns, r \in RoomIds : Budget /\ GetWaitingRoom(c, r) /\ Track

SendMessageEvent ==
  \E c \in Conns, r \in RoomIds, m \in Messages, u \in AuthorNames :
    Budget /\ msgCount < MaxMsgs /\ SendMessage(c, r, m, u) /\ Track

ToggleAudioEvent ==
  \E c \in Conns, r \in RoomIds, e \in BOOLEAN :
    Budget /\ ToggleAudio(c, r, "peer-" \o c, e) /\ Track

ToggleVideoEvent ==
  \E c \in Conns, r \in RoomIds, e \in BOOLEAN :
    Budget /\ ToggleVideo(c, r, "peer-" \o c, e) /\ Track

TypingStartEvent ==
  \E c \in Conns, r \in RoomIds, u \in AuthorNames :
    Budget /\ TypingStart(c, r, u) /\ Track

TypingStopEvent ==
  \E c \in Conns, r \in RoomIds : Budget /\ TypingStop(c, r) /\ Track

DisconnectEvent == \E c \in Conns : Budget /\ Disconnect(c) /\ Track

ForcedCloseFires ==
  \E c \in Conns : Budget /\ ForcedClose(c) /\ Track

EvictFires == \E r \in RoomIds : Budget /\ Evict(r) /\ Track

Next ==
  \/ CreateRoom
  \/ \E c \in Conns : Connect(c)
  \/ JoinRoomEvent
  \/ ApproveEvent
  \/ DenyEvent
  \/ RemoveEvent
  \/ GetWaitingRoomEvent
  \/ SendMessageEvent
  \/ ToggleAudioEvent
  \/ ToggleVideoEvent
  \/ TypingStartEvent
  \/ TypingStopEvent
  \/ DisconnectEvent
  \/ ForcedCloseFires
  \/ EvictFires

Spec == Init /\ [][Next]_vars

\* ------------------------------------------------------ timers that fire

\* A pending setTimeout callback runs whatever else has been handled.
ForcedCloseTimerFires == \E c \in Conns : ForcedClose(c) /\ Track

EvictTimerFires == \E r \in RoomIds : Evict(r) /\ Track

\* The events that change who is in a room or schedule a timer, and the
\* timers.
NextLive ==
  \/ CreateRoom
  \/ \E c \in Conns : Connect(c)
  \/ JoinRoomEvent
  \/ ApproveEvent
  \/ DenyEvent
  \/ RemoveEvent
  \/ DisconnectEvent
  \/ ForcedCloseTimerFires
  \/ EvictTimerFires

\* The event loop runs every timer callback that is due: a pending timer
\* fires eventually.
SpecLive ==
  /\ Init
  /\ [][NextLive]_vars
  /\ WF_vars(ForcedCloseTimerFires)
  /\ WF_vars(EvictTimerFires)

\* ------------------------------------------------- the chat log at its cap

\* Socket events handled in one behaviour of SpecChat.
MaxChatEvents == 104

\* The room of SpecChat and its host.
ChatRoom == RoomSeq[1]

ChatHost == ConnSeq[1]

\* The state Spec reaches by POST /api/room, the connection of the first two
\* sockets and the first socket's join-room {ChatRoom, "al", "peer-c1"}.
InitChat ==
  LET host == HostRecord(ChatHost, "al", "peer-" \o ChatHost)
  IN /\ rooms = [r \in {ChatRoom} |->
                   [NewRoom EXCEPT !.hostId = ChatHost,
                                   !.participants = <<host>>]]
     /\ objectHostId = [k \in ObjectPrototypeKeys |-> Undefined]
     /\ nextRoom = 1
     /\ conn = [c \in Conns |->
                  IF c \in {ConnSeq[1], ConnSeq[2]} THEN "connected" ELSE "new"]
     /\ joined = [c \in Conns |-> IF c = ChatHost THEN {ChatRoom} ELSE {}]
     /\ closeTimers = [c \in Conns |-> 0]
     /\ evictTimers = [r \in RegistryIds |-> 0]
     /\ staleTimers = [r \in RegistryIds |-> 0]
     /\ waitingSeen = [c \in Conns |-> <<>>]
     /\ msgCount = 0
     /\ events = 1
     /\ last = Event("join-room", ChatHost)
     /\ sent = <<Emit({ChatHost}, "admission-status",
                      [status |-> "approved", isHost |-> TRUE,
                       chatMessages |-> <<>>, participants |-> <<host>>]),
                 Emit({ChatHost}, "room-participants",
                      [participants |-> <<>>])>>

\* send-message events only, from any socket, until the budget is spent.
ChatEvent ==
  \E c \in Conns, m \in Messages, u \in AuthorNames :
    events < MaxChatEvents /\ SendMessage(c, ChatRoom, m, u) /\ Track

SpecChat == InitChat /\ [][ChatEvent]_vars

\* --------------------------------------------------- the length of a text

\* send-message events handled in one behaviour of SpecText.
MaxTextEvents == 5

\* A text of n characters without white space.
Text(n) == [i \in 1..n |-> LetterX]

\* message payloads of send-message around the limit of 500 characters, and
\* "h i" with U+00A0 for the white space in the middle.
Texts ==
  Messages \cup {<<LetterH, 160, LetterI>>,
                 Text(MaxMessageLength), Text(MaxMessageLength + 1),
                 <<Space>> \o Text(MaxMessageLength) \o <<Space>>,
                 <<Tab>> \o Text(MaxMessageLength) \o <<LineFeed>>,
                 <<Space>> \o Text(MaxMessageLength + 1)}

\* A roomId payload that is no key of rooms.
NoSuchRoom == "r0"

\* roomId payloads of SpecText: the room of InitChat, a name rooms does not
\* have and a name rooms inherits.
TextRoomIds == RoomIds \cup {NoSuchRoom, "constructor"}

\* send-message events only, with these texts, from any socket.
TextEvent ==
  \E c \in Conns, r \in TextRoomIds, m \in Texts, u \in AuthorNames :
    events < MaxTextEvents /\ SendMessage(c, r, m, u) /\ Track

SpecText == InitChat /\ [][TextEvent]_vars

\* ------------------------------------------------- a socket in two rooms

\* Socket events and timer firings handled in one behaviour of SpecRooms.
MaxRoomsEvents == 6

\* The state after POST /api/room was answered twice and the first two
\* sockets have connected.
InitRooms ==
  /\ rooms = [r \in RegistryIds |-> NewRoom]
  /\ objectHostId = [k \in ObjectPrototypeKeys |-> Undefined]
  /\ nextRoom = Len(RegistrySeq)
  /\ conn = [c \in Conns |->
               IF c \in {ConnSeq[1], ConnSeq[2]} THEN "connected" ELSE "new"]
  /\ joined = [c \in Conns |-> {}]
  /\ closeTimers = [c \in Conns |-> 0]
  /\ evictTimers = [r \in RegistryIds |-> 0]
  /\ staleTimers = [r \in RegistryIds |-> 0]
  /\ waitingSeen = [c \in Conns |-> <<>>]
  /\ msgCount = 0
  /\ events = 0
  /\ last = Event("connection", ConnSeq[2])
  /\ sent = <<>>

RoomsBudget == events < MaxRoomsEvents

\* The events of both rooms; a socket joins under the name of its own.
RoomsName(c) == IF c = ConnSeq[1] THEN "al" ELSE "bo"

RoomsJoin ==
  \E c \in Conns, r \in RegistryIds :
    RoomsBudget /\ JoinRoom(c, r, RoomsName(c), "peer-" \o c) /\ Track

RoomsApprove ==
  \E c \in Conns, r \in RegistryIds, t \in Conns :
    RoomsBudget /\ Approve(c, r, t) /\ Track

RoomsDeny ==
  \E c \in Conns, r \in RegistryIds, t \in Conns :
    RoomsBudget /\ Deny(c, r, t) /\ Track

RoomsRemove ==
  \E c \in Conns, r \in RegistryIds, t \in Conns :
    RoomsBudget /\ Remove(c, r, t, "peer-" \o t) /\ Track

RoomsDisconnect ==
  \E c \in Conns : RoomsBudget /\ Disconnect(c) /\ Track

RoomsForcedClose ==
  \E c \in Conns : RoomsBudget /\ ForcedClose(c) /\ Track

RoomsEvict ==
  \E r \in RegistryIds : RoomsBudget /\ Evict(r) /\ Track

NextRooms ==
  \/ RoomsJoin
  \/ RoomsApprove
  \/ RoomsDeny
  \/ RoomsRemove
  \/ RoomsDisconnect
  \/ RoomsForcedClose
  \/ RoomsEvict

SpecRooms == InitRooms /\ [][NextRooms]_vars

\* ----------------------------------- payloads that name inherited properties

\* Socket events handled in one behaviour of SpecKeys, the join-room of
\* InitChat included.
MaxKeysEvents == 5

\* roomId payloads: the room of InitChat, an inherited function, the
\* prototype, and a name that is inherited once Object.prototype has it.
KeysRoomIds == {ChatRoom, "constructor", "__proto__", "hostId"}

\* participantId payloads: the second socket, the names above and a
\* property of a participant record.
KeysTargetIds ==
  {ConnSeq[2], "constructor", "__proto__", "hostId", "audioEnabled"}

KeysBudget == events < MaxKeysEvents

KeysJoin ==
  \E c \in Conns, r \in KeysRoomIds, u \in {"", "bo"} :
    KeysBudget /\ JoinRoom(c, r, u, "peer-" \o c) /\ Track

KeysApprove ==
  \E c \in Conns, r \in KeysRoomIds, t \in KeysTargetIds :
    KeysBudget /\ Approve(c, r, t) /\ Track

KeysDeny ==
  \E c \in Conns, r \in KeysRoomIds, t \in KeysTargetIds :
    KeysBudget /\ Deny(c, r, t) /\ Track

KeysRemove ==
  \E c \in Conns, r \in KeysRoomIds, t \in KeysTargetIds :
    KeysBudget /\ Remove(c, r, t, "peer-" \o t) /\ Track

KeysGetWaitingRoom ==
  \E c \in Conns, r \in KeysRoomIds :
    KeysBudget /\ GetWaitingRoom(c, r) /\ Track

KeysSendMessage ==
  \E c \in Conns, r \in KeysRoomIds, u \in AuthorNames :
    KeysBudget /\ SendMessage(c, r, <<LetterH, LetterI>>, u) /\ Track

KeysDisconnect ==
  \E c \in Conns : KeysBudget /\ Disconnect(c) /\ Track

NextKeys ==
  \/ KeysJoin
  \/ KeysApprove
  \/ KeysDeny
  \/ KeysRemove
  \/ KeysGetWaitingRoom
  \/ KeysSendMessage
  \/ KeysDisconnect

\* From the state of InitChat: a room with its host and a second socket.
SpecKeys == InitChat /\ [][NextKeys]_vars

\* ------------------------------------------------------------------ claims

\* The entries of participants followed by those of waitingRoom.
Members(room) == room.participants \o room.waitingRoom

\* C1: in every reachable state, every room's hostId is null or a key of
\* that room's participants.
C1_HostIsParticipant ==
  \A r \in DOMAIN rooms :
    rooms[r].hostId = Null \/ rooms[r].hostId \in Keys(rooms[r].participants)

\* C2: in every reachable state and for every room, no connection id is a
\* key of participants and a key of waitingRoom at once.
C2_ParticipantsWaitingDisjoint ==
  \A r \in DOMAIN rooms :
    Keys(rooms[r].participants) \cap Keys(rooms[r].waitingRoom) = {}

\* C3: in every reachable state and for every room, no two distinct entries
\* of participants union waitingRoom have display names that are equal
\* ignoring letter case.
C3_NamesUniqueIgnoringCase ==
  \A r \in DOMAIN rooms :
    \A i, j \in 1..Len(Members(rooms[r])) :
      (i # j /\ Has(Members(rooms[r])[i], "username")
         /\ Has(Members(rooms[r])[j], "username")) =>
        ToLowerCase(Members(rooms[r])[i].username)
          # ToLowerCase(Members(rooms[r])[j].username)

\* The handler answers c with the error `message` and nothing else, changes
\* no room and schedules no forced close.
Refused(c, message) ==
  /\ sent' = <<Error(c, message)>>
  /\ rooms' = rooms
  /\ closeTimers' = closeTimers

\* The keys of room r's participants before the step (none before creation).
ParticipantsBefore(r) ==
  IF r \in DOMAIN rooms THEN Keys(rooms[r].participants) ELSE {}

\* C4: a connection becomes a participant of a room only by its own
\* join-room handled while the room has no host, or by an approve-participant
\* issued by the connection that is then the room's host for an id that is
\* then a key of waitingRoom.
C4_AdmittedOnlyByBootstrapOrHostApproval ==
  [][\A r \in DOMAIN rooms', c \in Conns :
       (c \in Keys(rooms'[r].participants) /\ c \notin ParticipantsBefore(r))
       => /\ r \in DOMAIN rooms
          /\ \/ /\ last' = Event("join-room", c)
                /\ rooms[r].hostId = Null
                /\ rooms'[r].hostId = c
                /\ \E u \in Usernames : \E p \in PeerIds(c) :
                     JoinRoom(c, r, u, p)
             \/ /\ last' = Event("approve-participant", rooms[r].hostId)
                /\ c \in Keys(rooms[r].waitingRoom)
                /\ Approve(rooms[r].hostId, r, c)]_vars

\* C4 witness: an approval has just admitted a connection into a room whose
\* host was admitted by bootstrap.
C4_Witness ==
  /\ last.op = "approve-participant"
  /\ \E r \in DOMAIN rooms, c \in Conns \ {last.c} :
       /\ rooms[r].hostId = last.c
       /\ {last.c, c} \subseteq Keys(rooms[r].participants)
       /\ Len(sent) > 0
       /\ sent[1] = Emit({c}, "admission-status",
                         [status |-> "approved", isHost |-> FALSE,
                          chatMessages |-> rooms[r].chatMessages])

\* C5: approve-participant, deny-participant and remove-participant issued
\* by a connection that is not the room's hostId are answered with the
\* unauthorized error alone, change no room and schedule no forced close.
C5_NonHostIsRefused ==
  [][\A r \in DOMAIN rooms, t \in TargetIds :
       rooms[r].hostId # last'.c =>
         /\ (last'.op = "approve-participant" /\ Approve(last'.c, r, t)) =>
              Refused(last'.c,
                      "Unauthorized: Only host can approve participants")
         /\ (last'.op = "deny-participant" /\ Deny(last'.c, r, t)) =>
              Refused(last'.c, "Unauthorized: Only host can deny participants")
         /\ (last'.op = "remove-participant"
               /\ Remove(last'.c, r, t, "peer-" \o t)) =>
              Refused(last'.c,
                      "Unauthorized: Only host can remove participants")]_vars

\* C5 witness: a connection waiting in a room that has another host has
\* just been refused an approve-participant.
C5_Witness ==
  /\ last.op = "approve-participant"
  /\ sent = <<Error(last.c, "Unauthorized: Only host can approve participants")>>
  /\ \E r \in DOMAIN rooms :
       /\ rooms[r].hostId \in Keys(rooms[r].participants) \ {last.c}
       /\ last.c \in Keys(rooms[r].waitingRoom)

\* C6: when the host issues approve-participant or deny-participant for an
\* id that is not a key of waitingRoom, it is answered with the not-found
\* error alone and no room changes.
C6_AbsentTargetIsNotFound ==
  [][\A r \in DOMAIN rooms, t \in TargetIds :
       (rooms[r].hostId = last'.c /\ t \notin Keys(rooms[r].waitingRoom)) =>
         /\ (last'.op = "approve-participant" /\ Approve(last'.c, r, t)) =>
              Refused(last'.c, "Participant not found in waiting room")
         /\ (last'.op = "deny-participant" /\ Deny(last'.c, r, t)) =>
              Refused(last'.c, "Participant not found in waiting room")]_vars

\* C7: the length of every chat log is at most 100; a message accepted into
\* a log that holds 100 messages drops exactly the oldest one, the others
\* keep their order and the new message is last (below the cap the new
\* message is appended).
C7_ChatLogKeepsNewestHundred ==
  /\ [](\A r \in DOMAIN rooms : Len(rooms[r].chatMessages) <= 100)
  /\ [][\A r \in DOMAIN rooms :
          (last'.op = "send-message" /\ msgCount' = msgCount + 1
             /\ \E m \in Messages, u \in AuthorNames :
                  SendMessage(last'.c, r, m, u)) =>
            LET old == rooms[r].chatMessages
                new == rooms'[r].chatMessages
            IN /\ new[Len(new)].id = msgCount'
               /\ new[Len(new)].senderId = last'.c
               /\ IF Len(old) = 100
                    THEN Len(new) = 100 /\ SubSeq(new, 1, 99) = Tail(old)
                    ELSE SubSeq(new, 1, Len(new) - 1) = old]_vars

\* C7 witness: more than 100 messages were accepted and the log holds the
\* newest 100 of them, oldest first.
C7_Witness ==
  /\ msgCount > 100
  /\ last.op = "send-message"
  /\ \E r \in DOMAIN rooms :
       /\ Len(rooms[r].chatMessages) = 100
       /\ \A i \in 1..100 : rooms[r].chatMessages[i].id = msgCount - 100 + i

\* Some entry of the room has this display name, ignoring letter case.
NameUsed(room, username) ==
  \E i \in 1..Len(Members(room)) :
    /\ Has(Members(room)[i], "username")
    /\ ToLowerCase(Members(room)[i].username) = ToLowerCase(username)

\* C8: a join-room with non-empty name and peer id, a name not used in the
\* room, to a room whose hostId names a connection puts the requester into waitingRoom,
\* leaves participants as they are, answers the requester with status
\* waiting and sends the host a waiting-room-update holding the waitingRoom
\* after the insertion.
C8_JoinWaitsAndHostIsTold ==
  [][last'.op = "join-room" =>
       \A r \in DOMAIN rooms, u \in Usernames \ {""} :
         \A p \in PeerIds(last'.c) \ {""} :
           (rooms[r].hostId \in Conns /\ ~NameUsed(rooms[r], u)
              /\ JoinRoom(last'.c, r, u, p)) =>
             LET c == last'.c
                 waiting == rooms'[r].waitingRoom
             IN /\ c \in Keys(waiting)
                /\ Get(waiting, c).username = u
                /\ Get(waiting, c).peerId = p
                /\ rooms'[r].participants = rooms[r].participants
                /\ \E i \in 1..Len(sent') :
                     sent'[i] = Emit({c}, "admission-status",
                                     [status |-> "waiting"])
                /\ \E i \in 1..Len(sent') :
                     sent'[i] = Emit({rooms[r].hostId}, "waiting-room-update",
                                     [waitingParticipants |-> waiting])]_vars

\* C9: a successful approve-participant moves the target from waitingRoom
\* to participants with host flag false and audio and video enabled, and
\* sends the approved connection the room's chat log and a snapshot holding
\* every participant of the room but itself, in particular the host that
\* approves (when the host is not the target).
C9_ApprovePromotesAndBriefs ==
  [][last'.op = "approve-participant" =>
       \A r \in DOMAIN rooms, t \in Conns :
         (rooms[r].hostId = last'.c /\ t \in Keys(rooms[r].waitingRoom)
            /\ Approve(last'.c, r, t)) =>
           LET w == Get(rooms[r].waitingRoom, t)
               parts == rooms'[r].participants
           IN /\ t \notin Keys(rooms'[r].waitingRoom)
              /\ t \in Keys(parts)
              /\ Get(parts, t).id = t
              /\ Get(parts, t).username = w.username
              /\ Get(parts, t).peerId = w.peerId
              /\ ~Get(parts, t).isHost
              /\ Get(parts, t).audioEnabled
              /\ Get(parts, t).videoEnabled
              /\ \E i \in 1..Len(sent') :
                   /\ sent'[i].to = {t}
                   /\ sent'[i].ev = "admission-status"
                   /\ sent'[i].data.status = "approved"
                   /\ sent'[i].data.chatMessages = rooms'[r].chatMessages
              /\ \E i \in 1..Len(sent') :
                   /\ sent'[i].to = {t}
                   /\ sent'[i].ev = "room-participants"
                   /\ sent'[i].data.participants
                        = SelectSeq(parts, LAMBDA e : e.key # t)
                   /\ last'.c # t =>
                        last'.c \in Keys(sent'[i].data.participants)]_vars

\* C10: on a successful approve-participant the user-joined event of the
\* new participant goes to every connection that was a participant before,
\* the approving host included, and not to the approved connection.
C10_JoinEventReachesTheOthers ==
  [][last'.op = "approve-participant" =>
       \A r \in DOMAIN rooms, t \in Conns :
         (rooms[r].hostId = last'.c /\ t \in Keys(rooms[r].waitingRoom)
            /\ Approve(last'.c, r, t)) =>
           \E i \in 1..Len(sent') :
             /\ sent'[i].ev = "user-joined"
             /\ sent'[i].data.participantId = t
             /\ sent'[i].data.peerId = Get(rooms[r].waitingRoom, t).peerId
             /\ (Keys(rooms[r].participants) \cap Conns) \ {t}
                  \subseteq sent'[i].to
             /\ t \notin sent'[i].to]_vars

\* C11: an accepted send-message is sent to every connection that is a
\* participant of the room, the sender included, with the host flag true
\* exactly when the sender is the room's hostId; a message kept in a chat
\* log is the same record after every later step (its host flag included).
C11_MessageReachesRoomWithHostFlag ==
  /\ [][last'.op = "send-message" /\ msgCount' = msgCount + 1 =>
          \A r \in DOMAIN rooms :
            (\E m \in Messages, u \in AuthorNames :
               SendMessage(last'.c, r, m, u)) =>
              /\ Len(sent') = 1
              /\ sent'[1].ev = "new-message"
              /\ last'.c \in sent'[1].to
              /\ Keys(rooms[r].participants) \cap Conns \subseteq sent'[1].to
              /\ sent'[1].data.isHost = (rooms[r].hostId = last'.c)
              /\ sent'[1].data.senderId = last'.c
              /\ sent'[1].data
                   = rooms'[r].chatMessages[Len(rooms'[r].chatMessages)]]_vars
  /\ [][\A r \in DOMAIN rooms \cap DOMAIN rooms' :
          \A i \in 1..Len(rooms[r].chatMessages) :
            \A j \in 1..Len(rooms'[r].chatMessages) :
              rooms[r].chatMessages[i].id = rooms'[r].chatMessages[j].id =>
                rooms[r].chatMessages[i] = rooms'[r].chatMessages[j]]_vars

\* C11 witness: the host's message has just been sent to the host and to
\* another participant, host flag true.
C11_Witness ==
  /\ last.op = "send-message"
  /\ Len(sent) = 1
  /\ sent[1].ev = "new-message"
  /\ sent[1].data.isHost
  /\ \E r \in DOMAIN rooms :
       /\ rooms[r].hostId = last.c
       /\ Cardinality(Keys(rooms[r].participants) \cap Conns) >= 2
       /\ sent[1].to = Keys(rooms[r].participants) \cap Conns

\* C12: when the connection that is a room's hostId disconnects (every
\* participant being a connection), it is no key of participants
\* afterwards; if other participants remain, hostId becomes the first
\* remaining key in insertion order, that participant is
\* sent host-transferred and the remaining participants are sent
\* host-changed naming it; if none remains, hostId becomes null.
C12_HostDisconnectTransfersHost ==
  [][(last'.op \in {"disconnect", "forced-close"}
        /\ conn[last'.c] = "connected") =>
       \A r \in DOMAIN rooms :
         (rooms[r].hostId = last'.c
            /\ Keys(rooms[r].participants) \subseteq Conns) =>
           LET c == last'.c
               remaining == SelectSeq(rooms[r].participants,
                                      LAMBDA e : e.key # c)
           IN /\ c \notin Keys(rooms'[r].participants)
              /\ IF remaining = <<>>
                    THEN rooms'[r].hostId = Null
                    ELSE /\ rooms'[r].hostId = remaining[1].key
                         /\ \E i \in 1..Len(sent') :
                              sent'[i] = Emit({remaining[1].key},
                                              "host-transferred",
                                              [isHost |-> TRUE])
                         /\ \E i \in 1..Len(sent') :
                              /\ sent'[i].ev = "host-changed"
                              /\ sent'[i].data.newHostId = remaining[1].key
                              /\ Keys(remaining) \cap Conns
                                   \subseteq sent'[i].to]_vars

\* A disconnect handler has just run and left room r without participants
\* and without waiting entries.
EmptiedByDisconnect(r) ==
  /\ last.op \in {"disconnect", "forced-close"}
  /\ conn[last.c] = "closed"
  /\ r \in DOMAIN rooms
  /\ IsEmptyRoom(rooms[r])

\* C13: when a disconnect leaves a room without participants and without
\* waiting entries, then eventually the room is removed from the registry
\* or a join-room is handled (the timers that are pending fire eventually).
C13_EmptyRoomIsEventuallyRemoved ==
  \A r \in RoomIds :
    EmptiedByDisconnect(r) ~> (r \notin DOMAIN rooms \/ last.op = "join-room")

\* C14: a room leaves the registry only in a step in which an eviction
\* timer fires while the room has no participants and no waiting entries;
\* a room that has a participant or a waiting entry is never removed.
C14_OnlyEmptyRoomsAreEvicted ==
  [][\A r \in DOMAIN rooms :
       r \notin DOMAIN rooms' =>
         /\ last'.op = "evict"
         /\ evictTimers[r] > 0
         /\ Len(rooms[r].participants) = 0
         /\ Len(rooms[r].waitingRoom) = 0]_vars

\* C14 witness: an eviction timer scheduled while the room was empty has
\* just fired after a join-room and has left the room in the registry.
C14_Witness ==
  /\ last.op = "evict"
  /\ \E r \in DOMAIN rooms :
       /\ rooms[r].hostId \in Connected(conn)
       /\ rooms[r].hostId \in Keys(rooms[r].participants)

\* C15: a room is removed from the registry only by an eviction timer that
\* was scheduled when the room last became empty or later, that is, after
\* participants and waitingRoom have been empty for one full grace delay;
\* a timer scheduled before the room was last occupied does not delete it.
C15_EvictedOnlyAfterFullGraceDelay ==
  [][\A r \in DOMAIN rooms :
       r \notin DOMAIN rooms' => staleTimers[r] = 0]_vars

\* Some entry of participants or waitingRoom has this very display name.
NameInUse(room, username) ==
  \E i \in 1..Len(Members(room)) :
    Has(Members(room)[i], "username") /\ Members(room)[i].username = username

\* The handler answers c with the room-error `message` and nothing else,
\* and changes no room and no group.
Rejected(c, message) ==
  /\ sent' = <<RoomError(c, message)>>
  /\ rooms' = rooms
  /\ joined' = joined

\* C16: a join-room is checked in this order, the first failing check
\* deciding the answer: unknown room, then empty display name or peer id,
\* then, if the room has a host, a display name already in participants or
\* waitingRoom; a rejected join-room changes no room, and a join-room that
\* passes the checks is not answered by a room-error.
C16_JoinRoomValidationOrder ==
  [][last'.op = "join-room" =>
       \A r \in KeysRoomIds, u \in Usernames :
         \A p \in PeerIds(last'.c) :
           JoinRoom(last'.c, r, u, p) =>
             IF r \notin DOMAIN rooms
               THEN Rejected(last'.c, "Room does not exist")
             ELSE IF u = "" \/ p = ""
               THEN Rejected(last'.c, "Username and peer ID are required")
             ELSE IF rooms[r].hostId # Null /\ NameInUse(rooms[r], u)
               THEN Rejected(last'.c,
                      "A user with this name is already in the meeting")
             ELSE /\ \A i \in 1..Len(sent') : sent'[i].ev # "room-error"
                  /\ rooms'[r] # rooms[r]]_vars

\* C17: in every reachable state, a room whose hostId is null has no
\* participants and no waiting entries.
C17_NoHostMeansEmptyRoom ==
  \A r \in DOMAIN rooms :
    rooms[r].hostId = Null =>
      Len(rooms[r].participants) = 0 /\ Len(rooms[r].waitingRoom) = 0

\* C18: in every reachable state and for every participant record of every
\* room, the record's isHost flag is true exactly when the record's id is
\* the room's hostId.
C18_HostFlagMatchesHostId ==
  \A r \in DOMAIN rooms :
    \A i \in 1..Len(rooms[r].participants) :
      rooms[r].participants[i].isHost
        <=> (Has(rooms[r].participants[i], "id")
               /\ rooms[r].participants[i].id = rooms[r].hostId)

\* Connection c is a key of participants or waitingRoom of some room.
InSomeRoom(c) ==
  \E r \in DOMAIN rooms : c \in Keys(Members(rooms[r]))

\* C19: a forced close that fires for a connection that has been admitted
\* again since it was scheduled (it is a participant or waits in some room)
\* does not close the connection and changes no room.
C19_ForcedCloseRevalidates ==
  [][(last'.op = "forced-close" /\ conn[last'.c] = "connected"
        /\ InSomeRoom(last'.c)) =>
       conn'[last'.c] = "connected" /\ rooms' = rooms]_vars

\* C20: remove-participant issued by the room's host for an id that is not
\* a key of participants is answered with an error to the host and changes
\* no room.
C20_RemoveOfAbsentTargetIsNotFound ==
  [][last'.op = "remove-participant" =>
       \A r \in DOMAIN rooms, t \in Conns :
         (rooms[r].hostId = last'.c /\ t \notin Keys(rooms[r].participants)
            /\ Remove(last'.c, r, t, "peer-" \o t)) =>
           /\ rooms' = rooms
           /\ closeTimers' = closeTimers
           /\ \E i \in 1..Len(sent') :
                sent'[i].ev = "error" /\ sent'[i].to = {last'.c}]_vars

\* The host has just removed participant c, which was sent the notice.
JustRemoved(c) ==
  /\ last.op = "remove-participant"
  /\ Len(sent) = 3
  /\ sent[1] = Emit({c}, "you-were-removed", RemovedNotice)

\* C21: a remove-participant by the room's host for a key of participants
\* deletes that participant record and nothing else of the room (the other
\* records and their order, waitingRoom, chatMessages and hostId stay), the
\* target is sent you-were-removed and a forced close is scheduled for it;
\* a scheduled forced close stays pending while the connection is open, and
\* eventually no connection with a pending forced close is open: the
\* target's connection is closed eventually.
C21_RemoveDeletesOnlyTheTarget ==
  /\ [][last'.op = "remove-participant" =>
          \A r \in DOMAIN rooms, t \in Conns :
            (rooms[r].hostId = last'.c /\ t \in Keys(rooms[r].participants)
               /\ Remove(last'.c, r, t, "peer-" \o t)) =>
              /\ rooms' = [rooms EXCEPT ![r].participants =
                             SelectSeq(@, LAMBDA e : e.key # t)]
              /\ sent'[1] = Emit({t}, "you-were-removed", RemovedNotice)
              /\ closeTimers'[t] = closeTimers[t] + 1]_vars
  /\ [][\A c \in Conns :
          (closeTimers[c] > 0 /\ conn[c] = "connected") =>
            closeTimers'[c] > 0 \/ conn'[c] = "closed"]_vars
  /\ []<>(\A c \in Conns : closeTimers[c] > 0 => conn[c] = "closed")

\* C21 witness: the host has just removed another participant; the removed
\* connection is still open with its forced close pending, and the host's
\* record is in place.
C21_Witness ==
  \E c \in Conns :
    /\ JustRemoved(c)
    /\ conn[c] = "connected"
    /\ closeTimers[c] > 0
    /\ \E r \in DOMAIN rooms :
         /\ rooms[r].hostId = last.c
         /\ c \notin Keys(rooms[r].participants)
         /\ last.c \in Keys(rooms[r].participants)
         /\ last.c # c

\* The number of characters of a text after trimming: those from its first
\* to its last character that is no white space.
TrimmedLength(m) ==
  LET inked == {i \in 1..Len(m) : m[i] \notin WhiteSpace}
  IN IF inked = {} THEN 0
     ELSE (CHOOSE i \in inked : \A j \in inked : j <= i)
            - (CHOOSE i \in inked : \A j \in inked : i <= j) + 1

\* The handler answers c with this error alone, stores no message and
\* broadcasts nothing.
MessageRejected(c, message) ==
  /\ sent' = <<Error(c, message)>>
  /\ rooms' = rooms

\* C22: send-message is rejected, in this order, when the room does not
\* exist, when the sender is no key of the room's participants, when the
\* text is empty after trimming and when the trimmed text has more than
\* 500 characters; a rejected send-message changes no chat log and emits
\* only the error; any other send-message, a trimmed text of exactly 500
\* characters included, is stored and broadcast.
C22_SendMessageValidationOrder ==
  [][\A r \in TextRoomIds, m \in Texts, u \in AuthorNames :
       SendMessage(last'.c, r, m, u) =>
         IF r \notin DOMAIN rooms
           THEN MessageRejected(last'.c, "Room not found")
         ELSE IF last'.c \notin Keys(rooms[r].participants)
           THEN MessageRejected(last'.c, "You are not in this room")
         ELSE IF TrimmedLength(m) = 0
           THEN MessageRejected(last'.c, "Message cannot be empty")
         ELSE IF TrimmedLength(m) > 500
           THEN MessageRejected(last'.c, "Message too long")
         ELSE /\ Len(sent') = 1
              /\ sent'[1].ev = "new-message"
              /\ Len(sent'[1].data.message) = TrimmedLength(m)
              /\ rooms'[r].chatMessages
                   = Append(rooms[r].chatMessages, sent'[1].data)]_vars

\* C23: when the host, a participant, disconnects while other participants
\* remain, host-transferred and host-changed are emitted before the
\* user-left of the departed host, and the hostId that host-changed names
\* and the room then has is a remaining participant, not the departed
\* connection.
C23_HostChangesBeforeLeftEvent ==
  [][(last'.op \in {"disconnect", "forced-close"}
        /\ conn[last'.c] = "connected") =>
       \A r \in DOMAIN rooms :
         LET c == last'.c
             remaining == SelectSeq(rooms[r].participants,
                                    LAMBDA e : e.key # c)
         IN (rooms[r].hostId = c /\ c \in Keys(rooms[r].participants)
               /\ remaining # <<>>) =>
              /\ rooms'[r].hostId \in Keys(remaining)
              /\ \E i, j, k \in 1..Len(sent') :
                   /\ i < j /\ j < k
                   /\ sent'[i].ev = "host-transferred"
                   /\ sent'[j].ev = "host-changed"
                   /\ sent'[j].data.newHostId = rooms'[r].hostId
                   /\ sent'[k].ev = "user-left"
                   /\ sent'[k].data.participantId = c
                   /\ c \notin sent'[k].to]_vars

\* C23 witness: the host has just disconnected and the participant that
\* became host was sent host-transferred, host-changed and then user-left.
C23_Witness ==
  /\ last.op = "disconnect"
  /\ Len(sent) = 4
  /\ sent[1].ev = "host-transferred"
  /\ sent[2].ev = "host-changed"
  /\ sent[3].ev = "user-left"
  /\ sent[3].data.participantId = last.c
  /\ \E r \in DOMAIN rooms :
       /\ rooms[r].hostId \in Keys(rooms[r].participants)
       /\ sent[1].to = {rooms[r].hostId}
       /\ sent[3].to = {rooms[r].hostId}

\* C24: a connection that is closed (its disconnect handler has run) is a
\* key of no room's participants and of no room's waitingRoom, in every
\* later state, whatever is approved afterwards.
C24_ClosedConnectionIsInNoRoom ==
  \A c \in Conns :
    conn[c] = "closed" =>
      \A r \in DOMAIN rooms : c \notin Keys(Members(rooms[r]))

\* C24 witness: a connection that waited in both rooms has just been
\* closed: the host of each room was sent its shortened waiting list.
C24_Witness ==
  /\ last.op = "disconnect"
  /\ conn[last.c] = "closed"
  /\ Len(sent) = Len(RegistrySeq)
  /\ \A i \in 1..Len(RegistrySeq) :
       LET r == RegistrySeq[i]
       IN /\ r \in DOMAIN rooms
          /\ rooms[r].hostId \in Keys(rooms[r].participants)
          /\ sent[i] = Emit({rooms[r].hostId}, "waiting-room-update",
                            [waitingParticipants |-> <<>>])

\* C25: a new-message is delivered only to connections that are keys of
\* the room's participants when it is sent, and the participant-removed
\* notification, which is sent after the record was deleted, only to keys
\* of the participants that remain.
C25_BroadcastsReachOnlyParticipants ==
  [][\A r \in DOMAIN rooms :
       /\ (last'.op = "send-message" /\ msgCount' = msgCount + 1
             /\ \E m \in Messages, u \in AuthorNames :
                  SendMessage(last'.c, r, m, u)) =>
            \A i \in 1..Len(sent') :
              sent'[i].ev = "new-message" =>
                sent'[i].to \subseteq Keys(rooms[r].participants)
       /\ (last'.op = "remove-participant"
             /\ \E t \in TargetIds : Remove(last'.c, r, t, "peer-" \o t)) =>
            \A i \in 1..Len(sent') :
              sent'[i].ev = "participant-removed" =>
                sent'[i].to \subseteq Keys(rooms'[r].participants)]_vars

\* C26: in every reachable state, for every room whose hostId names a
\* connection, the waiting list that connection was sent last (the empty
\* list if it was sent none) is the room's waitingRoom.
C26_HostKnowsTheWaitingList ==
  \A r \in DOMAIN rooms :
    rooms[r].hostId \in Conns =>
      waitingSeen[rooms[r].hostId] = rooms[r].waitingRoom

\* C27: the username of every message that is stored and broadcast is the
\* username that the room's participants record has for the sender.
C27_AuthorIsTheSendersName ==
  [][last'.op = "send-message" /\ msgCount' = msgCount + 1 =>
       \A r \in DOMAIN rooms :
         (\E m \in Messages, u \in AuthorNames :
            SendMessage(last'.c, r, m, u)) =>
           LET stored == rooms'[r].chatMessages[Len(rooms'[r].chatMessages)]
           IN /\ stored.senderId = last'.c
              /\ stored.username
                   = Get(rooms[r].participants, last'.c).username
              /\ sent'[1].data.username = stored.username]_vars

====
